---- MODULE Spec2Model ----
(***************************************************************************)
(* Emoji cipher game of src/server.js (lines 360-596): the room registry,  *)
(* the round state machine, its timers and the messages each handler       *)
(* sends.  One step of the model is one run-to-completion turn of the Node *)
(* event loop: one inbound event handled, one timer callback run, or one   *)
(* connection closing.                                                     *)
(*                                                                         *)
(* Strings the code computes on (words, guesses, emojis) are sequences of  *)
(* one-character strings; names and room codes, which the code only        *)
(* compares, are TLA+ strings.  Room objects live in a heap (rooms) and    *)
(* the registry (gameRooms) and the timer closures refer to them by        *)
(* identity, as in JavaScript; an object neither registered nor captured   *)
(* by a pending timer is dropped at the start of the next step.            *)
(***************************************************************************)
EXTENDS Integers, Sequences, FiniteSets, TLC

\* ------------------------------------------------------------------ bounds
\* largest totalRounds a start_game event carries
MaxRounds == 2
\* room objects alive at once (registered, or captured by a pending timer,
\* or just finished)
MaxRooms == 2

\* ------------------------------------------------------------------ inputs
Codes == {"R1"}
Names == {"A", "B", "C"}
Conns == {"w1", "w2"}
\* the connection each name's join arrives on: B and C share one connection
ConnOf(n) == IF n = "A" THEN "w1" ELSE "w2"
\* JavaScript null in a message field that otherwise holds a name
Null == "<null>"

\* the word list of a start_game: one word, so that a game of two rounds runs
\* past its end
W1 == <<"a", " ", "b">>
WordLists == {<<W1>>}
\* guesses: W1 without its inner space, W1 in other case with punctuation and
\* outer spaces, and the placeholder word
Guesses == {<<"a", "b">>,
            <<" ", "A", " ", "b", "?", " ">>,
            <<"m", "y", "s", "t", "e", "r", "y", "!">>}
\* the emojis of an emoji_locked: the handler stores and forwards them unread.
\* This text is W1 spelled out, so it gives the word away in a round whose
\* word is W1 and not in a round whose word is the placeholder
EmojiInputs == {<<"A", " ", "B">>}

\* ------------------------------------------------------------- normalising
LowerCase == <<"a","b","c","d","e","f","g","h","i","j","k","l","m",
               "n","o","p","q","r","s","t","u","v","w","x","y","z">>
UpperCase == <<"A","B","C","D","E","F","G","H","I","J","K","L","M",
               "N","O","P","Q","R","S","T","U","V","W","X","Y","Z">>
Digits == {"0","1","2","3","4","5","6","7","8","9"}

UpperOf(c) ==
  IF \E i \in 1..26 : LowerCase[i] = c
  THEN UpperCase[CHOOSE i \in 1..26 : LowerCase[i] = c]
  ELSE c

toUpperCase(s) == [i \in 1..Len(s) |-> UpperOf(s[i])]

\* the complement of the class [^A-Z0-9 ]
Kept(c) == c \in ({UpperCase[i] : i \in 1..26} \cup Digits \cup {" "})

StripOthers(s) == SelectSeq(s, Kept)

RECURSIVE TrimStart(_)
TrimStart(s) ==
  IF s # <<>> /\ Head(s) = " " THEN TrimStart(Tail(s)) ELSE s

RECURSIVE TrimEnd(_)
TrimEnd(s) ==
  IF s # <<>> /\ s[Len(s)] = " " THEN TrimEnd(SubSeq(s, 1, Len(s) - 1)) ELSE s

trim(s) == TrimEnd(TrimStart(s))

\* s.toUpperCase().replace(/[^A-Z0-9 ]/g, '').trim()
normalize(s) == trim(StripOthers(toUpperCase(s)))

isCorrect(guess, secret) == normalize(guess) = normalize(secret)

MYSTERY == <<"M", "Y", "S", "T", "E", "R", "Y">>

\* -------------------------------------------------------------------- state
VARIABLES
  rooms,      \* heap of room objects: object id -> room record
  gameRooms,  \* the registry: room code -> object id, 0 when the code has no room
  timers,     \* pending setTimeout callbacks
  wsOpen,     \* connections whose readyState is OPEN
  sent        \* the ws.send calls of the last step, in order

vars == <<rooms, gameRooms, timers, wsOpen, sent>>

RoomIds == 1..MaxRooms

PlayerNames(room) == {room.players[i].name : i \in 1..Len(room.players)}

\* Array.prototype.find(p => p.name === n): index of the first match, 0 if none
FindPlayer(room, n) ==
  IF \E i \in 1..Len(room.players) : room.players[i].name = n
  THEN CHOOSE i \in 1..Len(room.players) :
         /\ room.players[i].name = n
         /\ \A j \in 1..(i - 1) : room.players[j].name # n
  ELSE 0

\* room.players[room.currentMakerIndex]?.name  (currentMakerIndex is 0-based)
MakerName(room) ==
  IF room.currentMakerIndex + 1 \in 1..Len(room.players)
  THEN room.players[room.currentMakerIndex + 1].name
  ELSE Null

NewRoom(roomCode, ws) ==
  [ code |-> roomCode,
    hostWs |-> ws,
    players |-> <<>>,
    state |-> "waiting",
    currentRound |-> 0,
    totalRounds |-> 0,
    wordList |-> <<>>,
    currentMakerIndex |-> 0,
    currentWord |-> <<>>,
    currentEmojis |-> <<>>,
    correctGuessers |-> {},
    roundTimer |-> 0 ]

Init ==
  /\ rooms = <<>>
  /\ gameRooms = [c \in Codes |-> 0]
  /\ timers = {}
  /\ wsOpen = Conns
  /\ sent = <<>>


\* ------------------------------------------------------- the step's context
\* A handler is a function of the world it runs in: the heap, the registry,
\* the pending timers and the messages sent so far in this step.
Reachable ==
  {gameRooms[c] : c \in Codes} \cup {t.room : t \in timers}

\* the world at the start of a step: unreachable room objects are gone (their
\* ids, in gone, are not given to an object created in this step, so an id
\* names one object across a step) and nothing has been sent yet
Cur ==
  [ rooms |-> [i \in (DOMAIN rooms) \cap Reachable |-> rooms[i]],
    gone |-> (DOMAIN rooms) \ Reachable,
    gameRooms |-> gameRooms,
    timers |-> timers,
    sent |-> <<>> ]

Commit(w) ==
  /\ rooms' = w.rooms
  /\ gameRooms' = w.gameRooms
  /\ timers' = w.timers
  /\ sent' = w.sent

\* ----------------------------------------------------------------- messages
\* p.ws.send(JSON.stringify({ type, payload })) for the roster entry p
Msg(p, type, payload) ==
  [to |-> p.ws, name |-> p.name, type |-> type, payload |-> payload]

\* room.players.forEach(p => p.ws.send(...)): no readyState test.  The call is
\* recorded whether or not the connection is open; what the ws library does
\* with a send on a closed socket is outside this file, and the model takes
\* the call to return (as ws does from version 7 on) so that the handler runs
\* to its end.
SendAll(room, type, payload) ==
  [i \in 1..Len(room.players) |-> Msg(room.players[i], type, payload)]

\* room.players.map(pl => ({ name: pl.name, score: pl.score }))
Scoreboard(room) ==
  [i \in 1..Len(room.players) |->
     [name |-> room.players[i].name, score |-> room.players[i].score]]

\* scores[p.name] = p.score for each p
ScoreMap(room) ==
  [n \in PlayerNames(room) |-> room.players[FindPlayer(room, n)].score]

\* ------------------------------------------------------------------- timers
\* a fresh Timeout object: a handle no pending timer and no room holds
NewHandle(w) ==
  CHOOSE h \in 1..(Cardinality(w.timers) + Cardinality(DOMAIN w.rooms) + 1) :
    /\ \A t \in w.timers : t.id # h
    /\ \A i \in DOMAIN w.rooms : w.rooms[i].roundTimer # h
    /\ \A g \in 1..(h - 1) :
         \/ \E t \in w.timers : t.id = g
         \/ \E i \in DOMAIN w.rooms : w.rooms[i].roundTimer = g

\* clearTimeout that cancels nothing
ClearTimeoutIgnored(ts, h) == ts

\* clearTimeout(h): a handle that already fired or was cleared is ignored
ClearTimeout(ts, h) == {t \in ts : t.id # h}

\* a setTimeout whose callback is never scheduled
SetTimeoutDropped(w, id, kind, h) == w

\* setTimeout(cb, ms) with the callback closing over room object id; round is
\* the round the room was in when the timer was armed (not program state the
\* callback reads: it names the timer in the properties)
SetTimeout(w, id, kind, h) ==
  [w EXCEPT !.timers = @ \cup
     {[id |-> h, room |-> id, kind |-> kind,
       round |-> w.rooms[id].currentRound]}]

\* arming the round timer without cancelling the one already held
ArmRoundTimerNoCancel(w, id, kind) ==
  LET h == NewHandle(w)
  IN [SetTimeout(w, id, kind, h) EXCEPT !.rooms[id].roundTimer = h]

\* if (room.roundTimer) clearTimeout(room.roundTimer);
\* room.roundTimer = setTimeout(..., 70000 | 90000);
ArmRoundTimer(w, id, kind) ==
  LET old == w.rooms[id].roundTimer
      w1 == IF old # 0 THEN [w EXCEPT !.timers = ClearTimeout(@, old)] ELSE w
      h == NewHandle(w1)
      w2 == SetTimeout(w1, id, kind, h)
  IN [w2 EXCEPT !.rooms[id].roundTimer = h]

\* ------------------------------------------------------------ round helpers
\* rotation that starts one place late
MakerIndexOffByOne(round, n) == round % n

\* the rotation without the wrap to the start of the list
MakerIndexNoWrap(round, n) == round - 1

\* (room.currentRound - 1) % room.players.length
MakerIndexFor(round, n) == (round - 1) % n

\* room.wordList[room.currentRound - 1] || 'MYSTERY'
\* (an index past the end is undefined, and '' is falsy too)
WordFor(wordList, round) ==
  IF round \in 1..Len(wordList) /\ wordList[round] # <<>>
  THEN wordList[round]
  ELSE MYSTERY

\* round_start payload that carries the word whoever receives it
RoundStartPayloadToAll(room, isMaker) ==
  [round |-> room.currentRound, makerIndex |-> room.currentMakerIndex,
   word |-> room.currentWord]

\* { round, makerIndex, word: isMaker ? room.currentWord : undefined }
\* JSON.stringify leaves an undefined field out
RoundStartPayload(room, isMaker) ==
  IF isMaker
  THEN [round |-> room.currentRound, makerIndex |-> room.currentMakerIndex,
        word |-> room.currentWord]
  ELSE [round |-> room.currentRound, makerIndex |-> room.currentMakerIndex]

\* a registry that keeps the entry
RegistryKeep(reg, code) == reg

\* gameRooms.delete(code)
RegistryDelete(reg, code) == [c \in DOMAIN reg |-> IF c = code THEN 0 ELSE reg[c]]

\* the game-over test one round late
GameOverLate(round, totalRounds) == round > totalRounds + 1

\* if (room.currentRound > room.totalRounds), after room.currentRound++
GameOver(round, totalRounds) == round > totalRounds

\* function startGameRound(room)
startGameRound(w, id) ==
  LET r0 == w.rooms[id]
      round == r0.currentRound + 1
  IN IF GameOver(round, r0.totalRounds)
     THEN \* game over
       LET r1 == [r0 EXCEPT !.currentRound = round, !.state = "finished"]
           over == [finalPlayers |-> Scoreboard(r1)]
       IN [w EXCEPT !.rooms[id] = r1,
                    !.sent = @ \o SendAll(r1, "game_game_over", over),
                    !.gameRooms = RegistryDelete(@, r1.code)]
     ELSE
       LET r1 == [r0 EXCEPT
                    !.currentRound = round,
                    !.state = "making",
                    !.currentMakerIndex = MakerIndexFor(round, Len(r0.players)),
                    !.currentWord = WordFor(r0.wordList, round),
                    !.currentEmojis = <<>>,
                    !.correctGuessers = {}]
           makerName == r1.players[r1.currentMakerIndex + 1].name
           start == [i \in 1..Len(r1.players) |->
                       Msg(r1.players[i], "game_round_start",
                           RoundStartPayload(r1, r1.players[i].name = makerName))]
           w1 == [w EXCEPT !.rooms[id] = r1, !.sent = @ \o start]
       IN IF r1.currentMakerIndex + 1 \in 1..Len(r1.players)
          THEN ArmRoundTimer(w1, id, "making")
          ELSE \* room.players[i] is undefined and .name throws: the
               \* assignments made so far stay, nothing is sent or armed
               [w EXCEPT !.rooms[id] = r1]

\* function endGameRound(room, winnerName)
endGameRound(w, id, winnerName) ==
  LET r0 == w.rooms[id]
      w1 == IF r0.roundTimer # 0
            THEN [w EXCEPT !.timers = ClearTimeout(@, r0.roundTimer),
                           !.rooms[id].roundTimer = 0]
            ELSE w
      r1 == [w1.rooms[id] EXCEPT !.state = "reveal"]
      end == [winner |-> winnerName, word |-> r1.currentWord,
                 scores |-> ScoreMap(r1)]
      w2 == [w1 EXCEPT !.rooms[id] = r1,
                       !.sent = @ \o SendAll(r1, "game_round_end", end)]
  IN \* setTimeout(() => startGameRound(room), 6000): the handle is not kept
     SetTimeout(w2, id, "reveal", NewHandle(w2))

\* ----------------------------------------------------------- inbound events
\* gameRooms.get(roomCode): the room object id, 0 for undefined
Lookup(w, roomCode) == IF roomCode \in DOMAIN w.gameRooms THEN w.gameRooms[roomCode] ELSE 0

FreeIds(w) == RoomIds \ (DOMAIN w.rooms \cup w.gone)

\* a duplicate test that never matches
HasPlayerNever(room, pName) == FALSE

\* room.players.find(p => p.name === pName), as a truth value
HasPlayer(room, pName) == FindPlayer(room, pName) # 0

\* a guard that drops the event only when the code has no room
DroppedOnlyIfAbsent(w, id, required) == id = 0

\* if (!room || room.state !== required) break;
Dropped(w, id, required) == id = 0 \/ w.rooms[id].state # required

\* case 'game_join'
game_join(w, ws, roomCode, pName) ==
  IF roomCode = "" \/ pName = ""
  THEN w
  ELSE
    LET found == Lookup(w, roomCode)
        id == IF found # 0 THEN found ELSE CHOOSE i \in FreeIds(w) : \A j \in FreeIds(w) : i <= j
        w1 == IF found # 0
              THEN w
              ELSE [w EXCEPT !.rooms = (id :> NewRoom(roomCode, ws)) @@ @,
                             !.gameRooms[roomCode] = id]
        r0 == w1.rooms[id]
    IN IF HasPlayer(r0, pName)
       THEN w1
       ELSE
         LET r1 == [r0 EXCEPT !.players = Append(@, [ws |-> ws, name |-> pName, score |-> 0])]
             others == SelectSeq(r1.players, LAMBDA p : p.ws # ws /\ p.ws \in wsOpen)
         IN [w1 EXCEPT !.rooms[id] = r1,
                       !.sent = @ \o [i \in 1..Len(others) |->
                                        Msg(others[i], "game_player_joined", [player |-> pName])]]

\* case 'game_start_game'
game_start_game(w, roomCode, tr, wordList) ==
  LET id == Lookup(w, roomCode)
  IN IF Dropped(w, id, "waiting")
     THEN w
     ELSE
       LET r1 == [w.rooms[id] EXCEPT !.totalRounds = tr,
                                     !.wordList = wordList,
                                     !.currentRound = 0,
                                     !.currentMakerIndex = 0,
                                     !.state = "making"]
           started ==
             [totalRounds |-> tr,
              players |-> [i \in 1..Len(r1.players) |->
                             [name |-> r1.players[i].name, score |-> 0]]]
           w1 == [w EXCEPT !.rooms[id] = r1,
                           !.sent = @ \o SendAll(r1, "game_game_started", started)]
       IN startGameRound(w1, id)

\* case 'game_emoji_locked'
game_emoji_locked(w, roomCode, emojis) ==
  LET id == Lookup(w, roomCode)
  IN IF Dropped(w, id, "making")
     THEN w
     ELSE
       LET r1 == [w.rooms[id] EXCEPT !.currentEmojis = emojis,
                                     !.correctGuessers = {},
                                     !.state = "guessing"]
           revealed == [emojis |-> emojis, maker |-> MakerName(r1)]
           w1 == [w EXCEPT !.rooms[id] = r1,
                           !.sent = @ \o SendAll(r1, "game_emoji_revealed", revealed)]
       IN ArmRoundTimer(w1, id, "guessing")

\* Math.max(200, 1000 - (guessNum - 1) * 300)
Points(guessNum) ==
  IF 1000 - (guessNum - 1) * 300 > 200 THEN 1000 - (guessNum - 1) * 300 ELSE 200

\* the score assigned where the code adds to it
AddScoreAssign(room, name, n) ==
  LET i == FindPlayer(room, name)
  IN IF i = 0 THEN room ELSE [room EXCEPT !.players[i].score = n]

\* if (p) p.score += n, for p = room.players.find(q => q.name === name)
AddScore(room, name, n) ==
  LET i == FindPlayer(room, name)
  IN IF i = 0 THEN room ELSE [room EXCEPT !.players[i].score = @ + n]

\* the comparison taken strictly
RoundCompleteStrict(room, correct) ==
  LET nonMakers == SelectSeq(room.players, LAMBDA p : p.name # MakerName(room))
  IN correct /\ Cardinality(room.correctGuessers) > Len(nonMakers)

\* correct && room.correctGuessers.size >= nonMakers.length
RoundComplete(room, correct) ==
  LET nonMakers == SelectSeq(room.players, LAMBDA p : p.name # MakerName(room))
  IN correct /\ Cardinality(room.correctGuessers) >= Len(nonMakers)

\* a test that lets a second guess of the same name through
AlreadyGuessedNever(room, guesser) == FALSE

\* room.correctGuessers.has(guesser)
AlreadyGuessed(room, guesser) == guesser \in room.correctGuessers

\* case 'game_player_guess'
game_player_guess(w, roomCode, guesser, guess) ==
  LET id == Lookup(w, roomCode)
  IN IF Dropped(w, id, "guessing")
     THEN w
     ELSE
       LET r0 == w.rooms[id]
           makerName == MakerName(r0)
       IN IF guesser = makerName \/ AlreadyGuessed(r0, guesser)
          THEN w
          ELSE
            LET correct == isCorrect(guess, r0.currentWord)
                r1 == IF correct
                      THEN [r0 EXCEPT !.correctGuessers = @ \cup {guesser}]
                      ELSE r0
                points == IF correct THEN Points(Cardinality(r1.correctGuessers)) ELSE 0
                r2 == IF correct
                      THEN AddScore(AddScore(r1, guesser, points), makerName, 150)
                      ELSE r1
                result == [player |-> guesser, guess |-> guess,
                              correct |-> correct, points |-> points]
                w1 == [w EXCEPT !.rooms[id] = r2,
                                !.sent = @ \o SendAll(r2, "game_guess_result", result)]
            IN IF RoundComplete(r2, correct)
               THEN endGameRound(w1, id, guesser)
               ELSE w1

\* case 'game_ready_next_round': reply({ type: 'game_ready_ack' })
game_ready_next_round(w, ws) ==
  IF ws \in wsOpen
  THEN [w EXCEPT !.sent = @ \o <<[to |-> ws, name |-> Null, type |-> "game_ready_ack",
                                 payload |-> [reqId |-> Null]]>>]
  ELSE w

\* ------------------------------------------------------------ timer callbacks
\* the callback of a pending timer runs; the timer is no longer pending
FireTimer(w, t) ==
  LET w1 == [w EXCEPT !.timers = @ \ {t}]
  IN CASE t.kind = "making" ->
            \* () => { if (room.state === 'making') endGameRound(room, null) }
            IF w1.rooms[t.room].state = "making"
            THEN endGameRound(w1, t.room, Null)
            ELSE w1
       [] t.kind = "guessing" ->
            \* () => endGameRound(room, null)
            endGameRound(w1, t.room, Null)
       [] t.kind = "reveal" ->
            \* () => startGameRound(room)
            startGameRound(w1, t.room)

\* ------------------------------------------------------------------ actions
Join(roomCode, pName) ==
  /\ ConnOf(pName) \in wsOpen
  /\ (Lookup(Cur, roomCode) = 0 /\ roomCode # "" /\ pName # "") => FreeIds(Cur) # {}
  /\ Commit(game_join(Cur, ConnOf(pName), roomCode, pName))
  /\ UNCHANGED wsOpen

StartGame(roomCode, tr, wordList) ==
  /\ Commit(game_start_game(Cur, roomCode, tr, wordList))
  /\ UNCHANGED wsOpen

EmojiLocked(roomCode, emojis) ==
  /\ Commit(game_emoji_locked(Cur, roomCode, emojis))
  /\ UNCHANGED wsOpen

PlayerGuess(roomCode, guesser, guess) ==
  /\ Commit(game_player_guess(Cur, roomCode, guesser, guess))
  /\ UNCHANGED wsOpen

ReadyNextRound(ws) ==
  /\ ws \in wsOpen
  /\ Commit(game_ready_next_round(Cur, ws))
  /\ UNCHANGED wsOpen

TimerFires(t) ==
  /\ t \in timers
  /\ Commit(FireTimer(Cur, t))
  /\ UNCHANGED wsOpen

\* a connection closes: its readyState is never OPEN again
Close(ws) ==
  /\ ws \in wsOpen
  /\ wsOpen' = wsOpen \ {ws}
  /\ Commit(Cur)

Next ==
  \/ \E c \in Codes, n \in Names \cup {""} : Join(c, n)
  \/ \E c \in Codes, tr \in 0..MaxRounds, wl \in WordLists : StartGame(c, tr, wl)
  \/ \E c \in Codes, e \in EmojiInputs : EmojiLocked(c, e)
  \/ \E c \in Codes, n \in Names, g \in Guesses : PlayerGuess(c, n, g)
  \/ \E ws \in Conns : ReadyNextRound(ws)
  \/ \E t \in timers : TimerFires(t)
  \/ \E ws \in Conns : Close(ws)

Spec == Init /\ [][Next]_vars

\* Node's timer phase: the callback of a pending timer runs
TimerPhase == \E t \in timers : TimerFires(t)

\* a timer phase step is possible exactly when a timer is pending (firing
\* removes the timer, so the step is never a stuttering step)
TimerPhaseEnabled == (ENABLED <<TimerPhase>>_vars) <=> (timers # {})

\* Node runs the callback of every timer that is due, so a timer that stays
\* pending is not passed over for ever: weak fairness of the timer phase,
\* WF_vars(TimerPhase), written out with timers # {} for its ENABLED
\* (TimerPhaseEnabled). Each room holds its pending timers one at a time and
\* every pending timer belongs to the one registered room of its code.
TimerPhaseFair == []<>(timers = {}) \/ []<><<TimerPhase>>_vars

SpecFair == Init /\ [][Next]_vars /\ TimerPhaseFair

\* --------------------------------------------------------------- properties
TimersOf(id) == {t \in timers : t.room = id}

SentTypes == {sent[k].type : k \in DOMAIN sent}

\* the names of the roster other than the round's maker
NonMakers(room) == PlayerNames(room) \ {MakerName(room)}

\* p.score of the roster entry named n; 0 when the roster has no such entry
ScoreOf(room, n) ==
  IF FindPlayer(room, n) = 0 THEN 0 ELSE room.players[FindPlayer(room, n)].score

\* C1: in every reachable state each room object has at most one pending
\* deferred callback, the 70 s making timer, the 90 s guessing timer and the
\* 6 s reveal delay all counted; and a handle kept in roundTimer is the handle
\* of that one callback.
C1_OneTimerPerRoom ==
  \A id \in DOMAIN rooms :
    /\ Cardinality(TimersOf(id)) <= 1
    /\ \A t \in TimersOf(id) :
         /\ t.kind = "reveal" => rooms[id].roundTimer = 0
         /\ t.kind # "reveal" => rooms[id].roundTimer = t.id

\* a room in reveal whose only pending callback is the reveal delay, the
\* round timer having been cancelled by a round that ended on a guess
C1_Witness ==
  \E id \in DOMAIN rooms :
    /\ rooms[id].state = "reveal"
    /\ rooms[id].correctGuessers # {}
    /\ rooms[id].correctGuessers = NonMakers(rooms[id])
    /\ rooms[id].roundTimer = 0
    /\ \E t \in timers : t.kind = "reveal" /\ TimersOf(id) = {t}

\* the step leaves everything but the pending-timer set as it was
NoStateChange(t) ==
  /\ rooms' = Cur.rooms
  /\ gameRooms' = gameRooms
  /\ timers' = timers \ {t}
  /\ sent' = <<>>

\* C2: a round timer callback (making or guessing) changes state only in the
\* round and the phase it was armed in.  A round timer is pending only while
\* its room is still in the round and the phase that armed it (leaving the
\* phase cancels it); and whenever such a callback runs, either the room is
\* in the timer's round and phase, or the step changes nothing.
C2_TimerOwnRoundAndPhase ==
  /\ [](\A t \in timers :
          t.kind \in {"making", "guessing"} =>
            /\ t.room \in DOMAIN rooms
            /\ rooms[t.room].currentRound = t.round
            /\ rooms[t.room].state = t.kind)
  /\ [][\A t \in timers :
          (t.kind \in {"making", "guessing"} /\ TimerFires(t)) =>
             \/ /\ rooms[t.room].currentRound = t.round
                /\ rooms[t.room].state = t.kind
             \/ NoStateChange(t)]_vars

\* the 90 s timer has just ended round 2 without a winner
C2_Witness ==
  \E id \in DOMAIN rooms :
    /\ rooms[id].state = "reveal"
    /\ rooms[id].currentRound = 2
    /\ rooms[id].currentEmojis # <<>>
    /\ \E k \in DOMAIN sent :
         sent[k].type = "game_round_end" /\ sent[k].payload.winner = Null

\* the room object a registered code names, for the steps of one room
Accepted(id, roomCode) == id # 0 /\ id = gameRooms[roomCode] /\ id \in DOMAIN rooms

\* C3 (as claimed): every accepted correct guess in guessing adds to the
\* guesser's score, and reports in guess_result, max(200, 1000 - (n-1)*300)
\* points, n being the guesser's 1-based position among the distinct
\* participants who guessed correctly this round; an accepted incorrect guess
\* reports 0 and changes no score.
C3_PointsByRank ==
  [][\A c \in Codes, n \in Names, g \in Guesses :
       LET id == gameRooms[c] IN
       ( /\ PlayerGuess(c, n, g)
         /\ Accepted(id, c)
         /\ rooms[id].state = "guessing"
         /\ n # MakerName(rooms[id])
         /\ n \notin rooms[id].correctGuessers ) =>
         LET before == rooms[id]
             after == rooms'[id]
             rank == Cardinality(before.correctGuessers \cap PlayerNames(before)) + 1
             want == IF 1000 - (rank - 1) * 300 > 200
                     THEN 1000 - (rank - 1) * 300 ELSE 200
         IN IF isCorrect(g, before.currentWord)
            THEN /\ ScoreOf(after, n) - ScoreOf(before, n) = want
                 /\ n \in PlayerNames(before)
                 /\ \A k \in DOMAIN sent' :
                      sent'[k].type = "game_guess_result" =>
                        sent'[k].payload.correct /\ sent'[k].payload.points = want
            ELSE /\ after.players = before.players
                 /\ \A k \in DOMAIN sent' :
                      sent'[k].type = "game_guess_result" =>
                        ~sent'[k].payload.correct /\ sent'[k].payload.points = 0]_vars

\* C4 (as claimed): within a round the maker's score grows by exactly 150 for
\* each distinct participant who enters correctGuessers, and by nothing else.
C4_MakerBonus ==
  [][\A id \in DOMAIN rooms :
       ( /\ id \in DOMAIN rooms'
         /\ rooms[id].state \in {"making", "guessing", "reveal"}
         /\ rooms'[id].currentRound = rooms[id].currentRound ) =>
         LET before == rooms[id]
             after == rooms'[id]
             maker == MakerName(before)
             newly == (after.correctGuessers \ before.correctGuessers)
                        \cap PlayerNames(after)
         IN ScoreOf(after, maker) - ScoreOf(before, maker) = 150 * Cardinality(newly)]_vars

\* C5 (as claimed): correctGuessers holds only names of the room's player list
\* and never the current maker's name.
C5_GuessersArePlayers ==
  \A id \in DOMAIN rooms :
    rooms[id].state \in {"making", "guessing", "reveal"} =>
      rooms[id].correctGuessers \subseteq NonMakers(rooms[id])

\* C6 (as claimed): a room in guessing never has every non-maker participant
\* in correctGuessers, rooms with no non-maker participant included: the
\* guess that completes the set moves the room to reveal in the same step.
C6_ClosedWhenAllGuessed ==
  \A id \in DOMAIN rooms :
    rooms[id].state = "guessing" =>
      ~(NonMakers(rooms[id]) \subseteq rooms[id].correctGuessers)

\* C6 (amended): a room in guessing that has at least one non-maker
\* participant never has all of them in correctGuessers; and in a room that
\* has just been closed by a guess the 90 s timer is no longer pending.
C6_ClosedWhenAllGuessedNonEmpty ==
  \A id \in DOMAIN rooms :
    /\ (rooms[id].state = "guessing" /\ NonMakers(rooms[id]) # {}) =>
         ~(NonMakers(rooms[id]) \subseteq rooms[id].correctGuessers)
    /\ ( /\ rooms[id].state = "reveal"
         /\ \E k \in DOMAIN sent :
              sent[k].type = "game_round_end" /\ sent[k].payload.winner # Null ) =>
         \A t \in TimersOf(id) : t.kind = "reveal"

\* two non-makers have both guessed correctly and the second guess closed
\* the round
C6_Witness ==
  \E id \in DOMAIN rooms :
    /\ rooms[id].state = "reveal"
    /\ Cardinality(NonMakers(rooms[id])) = 2
    /\ NonMakers(rooms[id]) = rooms[id].correctGuessers
    /\ \E k \in DOMAIN sent :
         /\ sent[k].type = "game_round_end"
         /\ sent[k].payload.winner \in NonMakers(rooms[id])

\* C7: every round_start names the round r it starts and the maker index
\* (r - 1) mod N, N being the number of players of the room when the round
\* starts, and the room holds that index.
C7_MakerRotation ==
  \A id \in DOMAIN rooms : \A k \in DOMAIN sent :
    (sent[k].type = "game_round_start" /\ rooms[id].state = "making") =>
      LET r == sent[k].payload.round
          N == Len(rooms[id].players)
      IN /\ r = rooms[id].currentRound
         /\ r \in 1..rooms[id].totalRounds
         /\ sent[k].payload.makerIndex = (r - 1) % N
         /\ rooms[id].currentMakerIndex = (r - 1) % N

\* round 2 of a room of at least two players starts with maker index 1
C7_Witness ==
  \E id \in DOMAIN rooms : \E k \in DOMAIN sent :
    /\ rooms[id].state = "making"
    /\ sent[k].type = "game_round_start"
    /\ sent[k].payload.round = 2
    /\ sent[k].payload.makerIndex = 1

\* a finished room object: out of the registry, captured by no pending timer,
\* its round counter one past totalRounds, and the step that finished it sent
\* each roster entry a game_over carrying the final scores
FinishedRoomOk(id) ==
  /\ \A c \in Codes : gameRooms[c] # id
  /\ TimersOf(id) = {}
  /\ rooms[id].roundTimer = 0
  /\ rooms[id].currentRound = rooms[id].totalRounds + 1
  /\ \A i \in 1..Len(rooms[id].players) :
       \E k \in DOMAIN sent :
         /\ sent[k].type = "game_game_over"
         /\ sent[k].to = rooms[id].players[i].ws
         /\ sent[k].name = rooms[id].players[i].name
         /\ sent[k].payload.finalPlayers = Scoreboard(rooms[id])

\* C8: no registered room is ever finished; a room object is finished in the
\* step that removes it from the registry and sends game_over with the final
\* scores; from then on neither the registry nor a timer refers to it, so no
\* event and no callback reaches it, and while the object exists no step
\* alters it or finishes it again.
C8_FinishedOnceAndGone ==
  /\ [](\A c \in Codes :
          gameRooms[c] # 0 =>
            gameRooms[c] \in DOMAIN rooms /\ rooms[gameRooms[c]].state # "finished")
  /\ [](\A id \in DOMAIN rooms : rooms[id].state = "finished" => FinishedRoomOk(id))
  /\ [][\A id \in DOMAIN rooms :
          /\ (rooms[id].state = "finished" /\ id \in DOMAIN rooms') =>
               rooms'[id] = rooms[id]
          /\ (id \in DOMAIN rooms' /\ rooms'[id].state = "finished"
                /\ rooms[id].state # "finished") =>
               (\E c \in Codes : gameRooms[c] = id /\ gameRooms'[c] = 0)
          /\ (\E c \in Codes : gameRooms[c] = id /\ gameRooms'[c] # id) =>
               (id \in DOMAIN rooms' /\ rooms'[id].state = "finished")]_vars

\* a two-round game of two players has just finished after its second reveal
C8_Witness ==
  \E id \in DOMAIN rooms :
    /\ rooms[id].state = "finished"
    /\ rooms[id].totalRounds = 2
    /\ Len(rooms[id].players) = 2
    /\ \A c \in Codes : gameRooms[c] = 0
    /\ "game_game_over" \in SentTypes

\* C9: of the round_start messages of a step, the one sent to the current
\* maker carries the round's word and every other one has no word field.
C9_WordOnlyToMaker ==
  \A id \in DOMAIN rooms : \A k \in DOMAIN sent :
    (sent[k].type = "game_round_start" /\ rooms[id].state = "making") =>
      IF sent[k].name = MakerName(rooms[id])
      THEN /\ "word" \in DOMAIN sent[k].payload
           /\ sent[k].payload.word = rooms[id].currentWord
      ELSE "word" \notin DOMAIN sent[k].payload

\* a round_start fan-out to a maker (with the word) and to a non-maker (without)
C9_Witness ==
  \E id \in DOMAIN rooms : \E k, j \in DOMAIN sent :
    /\ rooms[id].state = "making"
    /\ sent[k].type = "game_round_start" /\ sent[j].type = "game_round_start"
    /\ sent[k].name = MakerName(rooms[id]) /\ "word" \in DOMAIN sent[k].payload
    /\ sent[j].name # MakerName(rooms[id]) /\ "word" \notin DOMAIN sent[j].payload

GameEvents ==
  {"game_game_started", "game_round_start", "game_emoji_revealed",
   "game_guess_result", "game_round_end", "game_game_over", "game_player_joined"}

\* C10 (as claimed): no game event is sent to a roster entry whose connection
\* is not open when the step sends it.
C10_OnlyOpenConnections ==
  \A k \in DOMAIN sent :
    sent[k].type \in GameEvents => sent[k].to \in wsOpen

ActiveStates == {"making", "guessing", "reveal"}

\* C11 (as claimed): a join addressed to a room in making, guessing or reveal
\* leaves that room's player list and all other room state unchanged.
C11_JoinOnlyWhileWaiting ==
  \A c \in Codes, n \in Names :
    LET id == Lookup(Cur, c) IN
    (id # 0 /\ Cur.rooms[id].state \in ActiveStates) =>
      game_join(Cur, ConnOf(n), c, n).rooms[id] = Cur.rooms[id]

\* C12: a player_guess under a name that is already in correctGuessers of the
\* addressed room changes no score, leaves correctGuessers as it is and sends
\* no message, whatever the guess text is.
C12_RepeatGuessIgnored ==
  \A c \in Codes, n \in Names, g \in Guesses :
    LET id == Lookup(Cur, c) IN
    (id # 0 /\ n \in Cur.rooms[id].correctGuessers) =>
      LET after == game_player_guess(Cur, c, n, g)
      IN /\ after.rooms[id].players = Cur.rooms[id].players
         /\ after.rooms[id].correctGuessers = Cur.rooms[id].correctGuessers
         /\ after.sent = <<>>
         /\ after = Cur

\* a round still open in which one participant has guessed correctly and
\* another has not, and the last event was dropped
C12_Witness ==
  \E id \in DOMAIN rooms :
    /\ rooms[id].state = "guessing"
    /\ \E n \in NonMakers(rooms[id]) :
         n \in rooms[id].correctGuessers /\ ScoreOf(rooms[id], n) > 0
    /\ sent = <<>>

\* a room code that no join ever names
NoSuchCode == "R0"

C14_MakerIndexInRange ==
  \A id \in DOMAIN rooms :
    rooms[id].state \in ActiveStates =>
      /\ 0 <= rooms[id].currentMakerIndex
      /\ rooms[id].currentMakerIndex < Len(rooms[id].players)

\* round 2 of a one-player room: the index has wrapped round to 0
C14_Witness ==
  \E id \in DOMAIN rooms :
    /\ rooms[id].state \in ActiveStates
    /\ rooms[id].currentRound = 2
    /\ Len(rooms[id].players) = 1
    /\ rooms[id].currentMakerIndex = 0

\* C15: over every step, every entry of a room's player list stays in the
\* list with a score that is not lower than before, and an entry that is new
\* to the list (a join, to a new or an existing room) has score 0.
C15_ScoresNeverDecrease ==
  [][\A id \in DOMAIN rooms' :
       LET after == rooms'[id] IN
       /\ id \in DOMAIN rooms => PlayerNames(rooms[id]) \subseteq PlayerNames(after)
       /\ \A i \in 1..Len(after.players) :
            LET p == after.players[i] IN
            IF id \in DOMAIN rooms /\ p.name \in PlayerNames(rooms[id])
            THEN p.score >= ScoreOf(rooms[id], p.name)
            ELSE p.score = 0]_vars

\* a participant whose score has grown in two steps: 1000 for a first correct
\* guess and 150 as maker of the other round
C15_Witness ==
  \E id \in DOMAIN rooms : \E n \in PlayerNames(rooms[id]) :
    ScoreOf(rooms[id], n) = 1150

\* C16: in every reachable state the names of a room's player list are
\* pairwise distinct, and a join under a name the addressed room already
\* lists leaves the room (length, order, scores) as it is and sends no
\* player_joined.
C16_NamesUnique ==
  /\ \A id \in DOMAIN rooms :
       \A i, j \in 1..Len(rooms[id].players) :
         rooms[id].players[i].name = rooms[id].players[j].name => i = j
  /\ \A c \in Codes, ws \in Conns :
       LET id == Lookup(Cur, c) IN
       id # 0 =>
         \A n \in PlayerNames(Cur.rooms[id]) :
           LET after == game_join(Cur, ws, c, n)
           IN /\ after.rooms[id].players = Cur.rooms[id].players
              /\ \A k \in DOMAIN after.sent :
                   after.sent[k].type # "game_player_joined"
              /\ after = Cur

\* a room of three participants, one of whom has scored, after a join that
\* added nobody and notified nobody
C16_Witness ==
  \E id \in DOMAIN rooms :
    /\ Len(rooms[id].players) = 3
    /\ \E n \in PlayerNames(rooms[id]) : ScoreOf(rooms[id], n) > 0
    /\ sent = <<>>

\* C17: if every pending timer eventually fires unless it is cancelled, every
\* room that has left waiting through start_game eventually is finished and
\* out of the registry, whatever events arrive or fail to arrive meanwhile.
C17_StartedRoomFinishes ==
  \A id \in RoomIds :
    (id \in DOMAIN rooms /\ rooms[id].state \in ActiveStates)
      ~> ( /\ id \in DOMAIN rooms
           /\ rooms[id].state = "finished"
           /\ \A c \in Codes : gameRooms[c] # id )

\* a two-round game that has finished although no emojis were locked in its
\* last round and no participant ever scored: the timers carried it through
C17_Witness ==
  \E id \in DOMAIN rooms :
    /\ rooms[id].state = "finished"
    /\ rooms[id].totalRounds = 2
    /\ rooms[id].currentEmojis = <<>>
    /\ \A n \in PlayerNames(rooms[id]) : ScoreOf(rooms[id], n) = 0
    /\ \A c \in Codes : gameRooms[c] = 0

\* C18 (as claimed): a room leaves guessing for reveal only in a step in
\* which its 90 s timer fires (round_end without a winner) or after which
\* every non-maker of its player list is in correctGuessers.
C18_ClosedOnlyWhenDue ==
  [][\A id \in DOMAIN rooms :
       ( /\ id \in DOMAIN rooms'
         /\ rooms[id].state = "guessing"
         /\ rooms'[id].state = "reveal" ) =>
         \/ /\ \E t \in TimersOf(id) : t.kind = "guessing" /\ t \notin timers'
            /\ \E k \in DOMAIN sent' :
                 /\ sent'[k].type = "game_round_end"
                 /\ sent'[k].payload.winner = Null
         \/ NonMakers(rooms'[id]) \subseteq rooms'[id].correctGuessers]_vars

\* the texts of a message that normalize to the round's secret word
CarriesSecret(m, room) ==
  \/ "word" \in DOMAIN m.payload /\ normalize(m.payload.word) = normalize(room.currentWord)
  \/ "guess" \in DOMAIN m.payload /\ normalize(m.payload.guess) = normalize(room.currentWord)
  \/ "emojis" \in DOMAIN m.payload /\ normalize(m.payload.emojis) = normalize(room.currentWord)

\* C19 (as claimed): while a round is open (after its round_start, before its
\* round_end: the room is in making or guessing) no message sent to a
\* non-maker of the player list holds text that normalizes to the round's
\* secret word.
C19_NoSecretBeforeRoundEnd ==
  \A id \in DOMAIN rooms : \A k \in DOMAIN sent :
    ( /\ rooms[id].state \in {"making", "guessing"}
      /\ sent[k].type \in GameEvents
      /\ sent[k].name \in NonMakers(rooms[id]) ) =>
      ~CarriesSecret(sent[k], rooms[id])

\* C19 (amended): of the messages sent to a non-maker of the player list
\* only round_end has a word field, it is sent on entering reveal and holds
\* the round's word; the secret otherwise reaches a non-maker only as client
\* text the server relays: the guess of a guess_result, which normalizes to
\* the secret exactly when the result is marked correct, and the emojis of
\* emoji_revealed, which are the maker's text unchanged.
C19_SecretOnlyRelayed ==
  \A id \in DOMAIN rooms : \A k \in DOMAIN sent :
    ( /\ rooms[id].state \in ActiveStates
      /\ sent[k].type \in GameEvents
      /\ sent[k].name \in NonMakers(rooms[id]) ) =>
      LET m == sent[k]
          room == rooms[id]
      IN /\ "word" \in DOMAIN m.payload =>
              /\ m.type = "game_round_end"
              /\ room.state = "reveal"
              /\ m.payload.word = room.currentWord
         /\ m.type = "game_guess_result" =>
              (m.payload.correct <=>
                 normalize(m.payload.guess) = normalize(room.currentWord))
         /\ m.type = "game_emoji_revealed" =>
              m.payload.emojis = room.currentEmojis
         /\ CarriesSecret(m, room) =>
              m.type \in {"game_round_end", "game_guess_result", "game_emoji_revealed"}

\* a correct guess has been reported, text included, to a non-maker who has
\* not guessed correctly yet, and the round is still open
C19_Witness ==
  \E id \in DOMAIN rooms : \E k \in DOMAIN sent :
    /\ rooms[id].state = "guessing"
    /\ sent[k].type = "game_guess_result"
    /\ sent[k].payload.correct
    /\ sent[k].name \in NonMakers(rooms[id]) \ rooms[id].correctGuessers

\* the step sends a message of this type
Sends(type) == \E k \in DOMAIN sent' : sent'[k].type = type

\* C20: round_end is sent exactly in the steps that take a room from making
\* or guessing to reveal, in the same round; a room leaves reveal only by the
\* round counter growing by one; the counter grows only from waiting (to 1)
\* or from reveal, by one, and the step that raises it either enters making
\* and sends round_start carrying the new number or finishes the room and
\* sends game_over; no other step sends round_start. So each round has one
\* round_end, after its round_start and before the next round_start or
\* game_over, and the round_start numbers are 1, 2, ... each once.
C20_RoundEventsInOrder ==
  [][ /\ \A id \in DOMAIN rooms' :
           LET after == rooms'[id]
               bState == IF id \in DOMAIN rooms THEN rooms[id].state ELSE "waiting"
               bRound == IF id \in DOMAIN rooms THEN rooms[id].currentRound ELSE 0
           IN /\ (after.state = "reveal" /\ bState # "reveal") =>
                   /\ bState \in {"making", "guessing"}
                   /\ after.currentRound = bRound
                   /\ Sends("game_round_end")
              /\ (after.state = bState /\ after.currentRound = bRound) =>
                   ~Sends("game_round_end") /\ ~Sends("game_round_start")
              /\ bState = "reveal" =>
                   \/ after.state = "reveal" /\ after.currentRound = bRound
                   \/ after.currentRound = bRound + 1
              /\ after.currentRound # bRound =>
                   /\ after.currentRound = bRound + 1
                   /\ bState = "reveal" \/ (bState = "waiting" /\ bRound = 0)
                   /\ ~Sends("game_round_end")
                   /\ IF after.currentRound <= after.totalRounds
                      THEN /\ after.state = "making"
                           /\ Sends("game_round_start")
                           /\ \A k \in DOMAIN sent' :
                                sent'[k].type = "game_round_start" =>
                                  sent'[k].payload.round = after.currentRound
                      ELSE /\ after.state = "finished"
                           /\ Sends("game_game_over")
                           /\ ~Sends("game_round_start")
      /\ Sends("game_round_end") =>
           \E id \in DOMAIN rooms \cap DOMAIN rooms' :
             rooms[id].state \in {"making", "guessing"} /\ rooms'[id].state = "reveal"
      /\ Sends("game_round_start") =>
           \E id \in DOMAIN rooms \cap DOMAIN rooms' :
             rooms'[id].currentRound = rooms[id].currentRound + 1
    ]_vars

\* round 2 has just been closed by the guess of its winner
C20_Witness ==
  \E id \in DOMAIN rooms : \E k \in DOMAIN sent :
    /\ rooms[id].state = "reveal"
    /\ rooms[id].currentRound = 2
    /\ sent[k].type = "game_round_end"
    /\ sent[k].payload.winner \in PlayerNames(rooms[id])

\* C21: a room in making, guessing or reveal is registered and has
\* 1 <= currentRound <= totalRounds; a waiting room has currentRound 0; a
\* step leaves currentRound as it is or adds exactly 1 to it; and a room has
\* currentRound = totalRounds + 1 only as the finished object of the step
\* that took it out of the registry.
C21_RoundCounterInRange ==
  /\ [](\A id \in DOMAIN rooms :
          LET room == rooms[id] IN
          /\ room.state \in ActiveStates =>
               /\ \E c \in Codes : gameRooms[c] = id
               /\ 1 <= room.currentRound
               /\ room.currentRound <= room.totalRounds
          /\ room.state = "waiting" => room.currentRound = 0
          /\ room.currentRound = room.totalRounds + 1 =>
               /\ room.state = "finished"
               /\ \A c \in Codes : gameRooms[c] # id)
  /\ [][\A id \in DOMAIN rooms' :
          LET before == IF id \in DOMAIN rooms THEN rooms[id].currentRound ELSE 0
              after == rooms'[id]
          IN /\ after.currentRound \in {before, before + 1}
             /\ (after.currentRound = after.totalRounds + 1
                   /\ after.currentRound # before) =>
                  \E c \in Codes : gameRooms[c] = id /\ gameRooms'[c] = 0]_vars

\* the last round of a two-round game is in its guessing phase: the counter
\* has reached totalRounds and the room is still registered
C21_Witness ==
  \E c \in Codes :
    /\ gameRooms[c] \in DOMAIN rooms
    /\ rooms[gameRooms[c]].state = "guessing"
    /\ rooms[gameRooms[c]].totalRounds = 2
    /\ rooms[gameRooms[c]].currentRound = 2

====
